---- MODULE Spec2Model ----
(***************************************************************************)
(* Connection-header detection and framing of linkerd2-proxy               *)
(* (linkerd/connection-header/src/lib.rs).                                 *)
(*                                                                         *)
(* Bytes are naturals 0..255, byte strings are sequences of bytes.  The    *)
(* caller's BytesMut is a record [data, cap, off]: the readable bytes, the *)
(* capacity counted from the read cursor, and the number of bytes already  *)
(* advanced past in the backing vector.                                    *)
(***************************************************************************)
EXTENDS Integers, Sequences, FiniteSets, TLC

\* ------------------------------------------------------------------------
\* Bounds of the model
\* ------------------------------------------------------------------------

\* Calls of detect made for one connection, one after another.
MaxCalls == 2

\* Connections one DetectHeader instance is called for, one after another.
MaxConns == 2

\* Longest trailing byte string T that follows a frame on the transport.
MaxTrail == 2

\* Reads deliver 1..MaxChunk bytes, or all that is available and fits.
MaxChunk == 4

\* Length of the longest logical name a Header of the model carries.
MaxNameLen == 62

\* ------------------------------------------------------------------------
\* Constants of the program
\* ------------------------------------------------------------------------

\* b"proxy.l5d.io/connect\r\n\r\n"
PREFACE ==
  <<112, 114, 111, 120, 121, 46, 108, 53, 100, 46, 105, 111, 47,
    99, 111, 110, 110, 101, 99, 116, 13, 10, 13, 10>>

PREFACE_LEN == Len(PREFACE) + 4

\* BytesMut::bytes_mut grows a full buffer by this much before a read.
ReadReserve == 64

\* ------------------------------------------------------------------------
\* Small helpers
\* ------------------------------------------------------------------------

Min(a, b) == IF a < b THEN a ELSE b

Max(a, b) == IF a > b THEN a ELSE b

Drop(s, n) == SubSeq(s, n + 1, Len(s))

Take(s, n) == SubSeq(s, 1, n)

IsPrefix(p, s) == Len(p) <= Len(s) /\ Take(s, Len(p)) = p

\* ------------------------------------------------------------------------
\* BytesMut (vector-backed), as used by lib.rs
\* ------------------------------------------------------------------------

\* BytesMut::with_capacity(c) holding `bytes`.
NewBuf(bytes, c) == [data |-> bytes, cap |-> c, off |-> 0]

\* Buf::advance(n): drops n bytes from the front; the capacity is counted
\* from the read cursor, so it shrinks by n.
Advance(b, n) ==
  [data |-> Drop(b.data, n), cap |-> b.cap - n, off |-> b.off + n]

\* The rule by which BytesMut::reserve of the bytes crate the build links
\* reclaims the consumed front of the vector: "fits", whenever that
\* satisfies the request (bytes 0.5, whose Buf::bytes and
\* BufMut::bytes_mut lib.rs calls), or "amortised", only when in addition
\* at least as many bytes were consumed as are held (later releases).
VARIABLE alloc

ReservePolicies == {"fits", "amortised"}

\* BytesMut::reserve(additional): enough spare capacity, else the consumed
\* front is reclaimed when the rule of the build allows it, else the
\* backing vector grows.
Reserve(b, additional) ==
  LET len == Len(b.data) IN
  IF b.cap - len >= additional THEN b
  ELSE IF /\ b.cap - len + b.off >= additional
          /\ (alloc = "fits" \/ b.off >= len)
       THEN \* the consumed front of the vector is reclaimed
            [b EXCEPT !.cap = b.cap + b.off, !.off = 0]
       ELSE \* Vec::reserve: amortised growth of the backing vector
            LET vcap == b.off + b.cap
                vlen == b.off + len
                ncap == Max(Max(2 * vcap, vlen + additional), 8)
            IN [b EXCEPT !.cap = ncap - b.off]

\* BufMut::bytes_mut of BytesMut, reached through AsyncReadExt::read_buf:
\* a full buffer is grown before the transport is polled.
PrepareRead(b) ==
  IF b.cap = Len(b.data) THEN Reserve(b, ReadReserve) ELSE b

\* The spare capacity a single read can fill.
Spare(b) == b.cap - Len(b.data)

\* Faulty variant of PutBytes: the bytes read are put in front.
PutBytesFront(b, bytes) == [b EXCEPT !.data = bytes \o b.data]

\* BufMut::advance_mut after a read of `bytes` into the spare capacity.
PutBytes(b, bytes) == [b EXCEPT !.data = b.data \o bytes]

\* ------------------------------------------------------------------------
\* Fixed-width and variable-width integers on the wire
\* ------------------------------------------------------------------------

\* BufMut::put_u32: big-endian, 4 bytes (n below 2^31 in this model).
PutU32(n) ==
  <<n \div 16777216, (n \div 65536) % 256, (n \div 256) % 256, n % 256>>

\* Buf::get_u32 of 4 bytes, as the pair <<high 16 bits, low 16 bits>>.
GetU32(b4) == <<b4[1] * 256 + b4[2], b4[3] * 256 + b4[4]>>

\* The value of a u32 pair that is known to be below 2^31.
U32Val(p) == p[1] * 65536 + p[2]

\* u32 pair > n, for a natural n.
U32Exceeds(p, n) ==
  \/ p[1] > n \div 65536
  \/ p[1] = n \div 65536 /\ p[2] > n % 65536

\* prost::encoding::encode_varint of a value 0 <= v < 2^31.
RECURSIVE EncodeVarint(_)
EncodeVarint(v) ==
  IF v < 128 THEN <<v>> ELSE <<(v % 128) + 128>> \o EncodeVarint(v \div 128)

\* prost::encoding::int32::encode of the value w: the varint of w as u64,
\* sign-extended to ten bytes when w is negative.
EncodeInt32(w) ==
  IF w >= 0 THEN EncodeVarint(w)
  ELSE LET lo == w % 65536
           hi == (w \div 65536) % 65536
       IN <<128 + (lo % 128),
            128 + ((lo \div 128) % 128),
            128 + (lo \div 16384) + (4 * (hi % 32)),
            128 + ((hi \div 32) % 128),
            128 + (hi \div 4096) + 112,
            255, 255, 255, 255, 1>>

\* The 7-bit groups of a varint that starts at s[i], least significant
\* first; <<-1>> when the bytes end first or ten bytes do not end it.
RECURSIVE VarintGroups(_, _, _)
VarintGroups(s, i, count) ==
  IF count = 10 \/ i > Len(s) THEN <<-1>>
  ELSE IF s[i] < 128 THEN <<s[i]>>
  ELSE LET rest == VarintGroups(s, i + 1, count + 1)
       IN IF rest = <<-1>> THEN <<-1>> ELSE <<s[i] - 128>> \o rest

VarintResult(g, i) ==
  IF g = <<-1>> THEN [ok |-> FALSE, g |-> <<>>, next |-> i]
  ELSE [ok |-> TRUE, g |-> g, next |-> i + Len(g)]

\* prost::encoding::decode_varint at s[i].
DecodeVarint(s, i) == VarintResult(VarintGroups(s, i, 0), i)

Group(g, k) == IF k <= Len(g) THEN g[k] ELSE 0

\* Bits 0..15 and bits 16..31 of a decoded varint.
Lo16(g) == Group(g, 1) + 128 * Group(g, 2) + 16384 * (Group(g, 3) % 4)

Hi16(g) ==
  (Group(g, 3) \div 4) + 32 * Group(g, 4) + 4096 * (Group(g, 5) % 16)

\* Some bit of 32..63 is set (the tenth byte only holds bit 63).
Above32(g) ==
  \/ Group(g, 5) \div 16 > 0
  \/ \E k \in 6..9 : Group(g, k) > 0
  \/ Group(g, 10) % 2 = 1

\* A decoded u64 taken as a length: it exceeds `remaining`.
LenExceeds(g, remaining) ==
  \/ Above32(g)
  \/ Hi16(g) >= 32768
  \/ Hi16(g) * 65536 + Lo16(g) > remaining

LenVal(g) == Hi16(g) * 65536 + Lo16(g)

\* ------------------------------------------------------------------------
\* Logical names (linkerd2_dns_name::Name)
\* ------------------------------------------------------------------------

IsDigit(c) == c >= 48 /\ c <= 57

IsAlpha(c) == (c >= 97 /\ c <= 122) \/ (c >= 65 /\ c <= 90) \/ c = 95

\* The label that ends at position e of s starts at this position.
LabelStart(s, e) ==
  LET dots == {k \in 1..e : s[k] = 46}
  IN IF dots = {} THEN 1 ELSE (CHOOSE k \in dots : \A m \in dots : m <= k) + 1

\* The DNS-name syntax the validator accepts: labels of letters, digits,
\* '-' and '_' separated by '.', none empty, none longer than 63, none
\* starting or ending with '-', the last one not all digits; one trailing
\* '.' is allowed.
NameSyntax(s) ==
  LET n == Len(s)
      last == IF s[n] = 46 THEN n - 1 ELSE n
  IN /\ \A i \in 1..n : IsDigit(s[i]) \/ IsAlpha(s[i]) \/ s[i] = 45 \/ s[i] = 46
     /\ s[1] # 46 /\ s[1] # 45
     /\ \A i \in 2..n : s[i] = 46 => s[i - 1] # 46 /\ s[i - 1] # 45
     /\ \A i \in 2..n : s[i] = 45 => s[i - 1] # 46
     /\ s[n] # 45
     /\ \A i \in 1..(n - 63) : \E k \in i..(i + 63) : s[k] = 46
     /\ \E k \in LabelStart(s, last)..last : ~IsDigit(s[k])

\* Name::from_str accepts the string.
NameValid(s) == Len(s) > 0 /\ Len(s) <= 253 /\ NameSyntax(s)

\* The accepted string as the Name stores it (ASCII lower case).
NameOf(s) == [i \in 1..Len(s) |-> IF s[i] >= 65 /\ s[i] <= 90 THEN s[i] + 32 ELSE s[i]]

\* Option<Name>
NoName == [some |-> FALSE, val |-> <<>>]

SomeName(s) == [some |-> TRUE, val |-> s]

\* ------------------------------------------------------------------------
\* Header codec
\* ------------------------------------------------------------------------

\* proto::Header { port: int32 = 1, name: string = 2 } as prost writes it:
\* a field that holds its default value is not written.
ProtoEncode(port, name) ==
  (IF port # 0 THEN <<8>> \o EncodeVarint(port) ELSE <<>>)
  \o (IF name # <<>> THEN <<18>> \o EncodeVarint(Len(name)) \o name ELSE <<>>)

\* Header::encode: the payload appended to the buffer.
Encode(h) ==
  ProtoEncode(h.port, IF h.name.some THEN h.name.val ELSE <<>>)

\* str::from_utf8 accepts what follows the multi-byte sequence at s[i];
\* runs of ASCII bytes are stepped over at once.
RECURSIVE Utf8From(_, _)
Utf8From(s, i) ==
  LET n == Len(s)
      high == {k \in i..n : s[k] >= 128}
      Cont(k) == k <= n /\ s[k] >= 128 /\ s[k] <= 191
      In(k, lo, hi) == k <= n /\ s[k] >= lo /\ s[k] <= hi
  IN IF high = {} THEN TRUE
     ELSE LET j == CHOOSE k \in high : \A m \in high : k <= m
              c == s[j]
          IN IF c >= 194 /\ c <= 223
             THEN Cont(j + 1) /\ Utf8From(s, j + 2)
             ELSE IF c = 224
             THEN In(j + 1, 160, 191) /\ Cont(j + 2) /\ Utf8From(s, j + 3)
             ELSE IF c = 237
             THEN In(j + 1, 128, 159) /\ Cont(j + 2) /\ Utf8From(s, j + 3)
             ELSE IF c >= 225 /\ c <= 239
             THEN Cont(j + 1) /\ Cont(j + 2) /\ Utf8From(s, j + 3)
             ELSE IF c = 240
             THEN In(j + 1, 144, 191) /\ Cont(j + 2) /\ Cont(j + 3) /\ Utf8From(s, j + 4)
             ELSE IF c >= 241 /\ c <= 243
             THEN Cont(j + 1) /\ Cont(j + 2) /\ Cont(j + 3) /\ Utf8From(s, j + 4)
             ELSE IF c = 244
             THEN In(j + 1, 128, 143) /\ Cont(j + 2) /\ Cont(j + 3) /\ Utf8From(s, j + 4)
             ELSE FALSE

Utf8Valid(s) == Utf8From(s, 1)

\* The field tag of a key as the pair <<bits 13..28, bits 0..12>>, and its
\* wire type; not ok when the key is no u32, the wire type is above 5 or
\* the tag is 0.
KeyResult(k) ==
  [ok |-> k.ok /\ ~Above32(k.g) /\ Group(k.g, 1) % 8 <= 5
          /\ <<Hi16(k.g), Lo16(k.g) \div 8>> # <<0, 0>>,
   tag |-> <<Hi16(k.g), Lo16(k.g) \div 8>>,
   wt |-> Group(k.g, 1) % 8,
   next |-> k.next]

\* prost::encoding::decode_key at s[i].
DecodeKey(s, i) == KeyResult(DecodeVarint(s, i))

\* The index after a length-delimited value whose length varint is l, 0
\* when the length is malformed or exceeds what is left.
SkipDelimited(s, l) ==
  IF ~l.ok \/ LenExceeds(l.g, Len(s) - (l.next - 1)) THEN 0
  ELSE l.next + LenVal(l.g)

SkipVarint(v) == IF v.ok THEN v.next ELSE 0

\* prost::encoding::skip_field: the index after the skipped field, 0 when
\* the field is malformed.
RECURSIVE SkipField(_, _, _, _)
RECURSIVE SkipGroup(_, _, _)
RECURSIVE SkipInGroup(_, _, _)
SkipField(s, i, wt, tag) ==
  CASE wt = 0 -> SkipVarint(DecodeVarint(s, i))
    [] wt = 1 -> IF 8 > Len(s) - (i - 1) THEN 0 ELSE i + 8
    [] wt = 5 -> IF 4 > Len(s) - (i - 1) THEN 0 ELSE i + 4
    [] wt = 2 -> SkipDelimited(s, DecodeVarint(s, i))
    [] wt = 3 -> SkipGroup(s, i, tag)
    [] OTHER -> 0

\* After the key k inside a group with tag `tag`.
SkipInGroup(s, k, tag) ==
  IF ~k.ok THEN 0
  ELSE IF k.wt = 4 THEN (IF k.tag = tag THEN k.next ELSE 0)
  ELSE SkipGroup(s, SkipField(s, k.next, k.wt, k.tag), tag)

SkipGroup(s, i, tag) ==
  IF i = 0 THEN 0 ELSE SkipInGroup(s, DecodeKey(s, i), tag)

\* The fields of proto::Header before any field is merged: the defaults.
ProtoDefault == [ok |-> TRUE, port |-> <<0, 0>>, name |-> <<>>]

ProtoFail == [ok |-> FALSE, port |-> <<0, 0>>, name |-> <<>>]

\* prost::Message::decode of proto::Header: fields are merged in order, a
\* later occurrence replaces an earlier one and unknown fields are skipped.
\* port is the int32 as the pair <<bits 16..31, bits 0..15>>.  An index of
\* 0 stands for a field that was malformed.
RECURSIVE ProtoMerge(_, _, _)
RECURSIVE MergeField(_, _, _)
RECURSIVE MergePort(_, _, _)
RECURSIVE MergeName(_, _, _)

\* int32::merge of field 1, whose value varint is v.
MergePort(s, v, h) ==
  IF ~v.ok THEN ProtoFail
  ELSE ProtoMerge(s, v.next, [h EXCEPT !.port = <<Hi16(v.g), Lo16(v.g)>>])

\* string::merge of field 2, whose length varint is l.
MergeName(s, l, h) ==
  IF ~l.ok \/ LenExceeds(l.g, Len(s) - (l.next - 1)) THEN ProtoFail
  ELSE IF ~Utf8Valid(SubSeq(s, l.next, l.next + LenVal(l.g) - 1)) THEN ProtoFail
  ELSE ProtoMerge(s, l.next + LenVal(l.g),
                  [h EXCEPT !.name = SubSeq(s, l.next, l.next + LenVal(l.g) - 1)])

\* Header::merge_field for the key k.
MergeField(s, k, h) ==
  IF ~k.ok THEN ProtoFail
  ELSE IF k.tag = <<0, 1>>
       THEN (IF k.wt # 0 THEN ProtoFail ELSE MergePort(s, DecodeVarint(s, k.next), h))
  ELSE IF k.tag = <<0, 2>>
       THEN (IF k.wt # 2 THEN ProtoFail ELSE MergeName(s, DecodeVarint(s, k.next), h))
  ELSE ProtoMerge(s, SkipField(s, k.next, k.wt, k.tag), h)

ProtoMerge(s, i, h) ==
  IF i = 0 THEN ProtoFail
  ELSE IF i > Len(s) THEN h
  ELSE CHOOSE r \in {MergeField(s, k, h) : k \in {DecodeKey(s, i)}} : TRUE

ProtoDecode(s) == ProtoMerge(s, 1, ProtoDefault)

\* io::Result<Option<Header>>
NoHeader == [port |-> 0, name |-> NoName]

OkSome(h) == [kind |-> "some", header |-> h, err |-> "", why |-> ""]

OkNone == [kind |-> "none", header |-> NoHeader, err |-> "", why |-> ""]

Err(e, why) == [kind |-> "err", header |-> NoHeader, err |-> e, why |-> why]

\* Faulty variant of PortOf: a value outside 0..65535 saturates.
PortOfSaturating(p) == IF p[1] # 0 THEN 65535 ELSE p[2]

\* Faulty variant of PortOf: the port is narrowed to 8 bits.
PortOfU8(p) == p[2] % 256

\* `h.port as u16`: the low 16 bits of the int32.
PortOf(p) == p[2]

\* Faulty variant of HeaderOf: a name the validator rejects is dropped.
HeaderOfLenient(h) ==
  IF ~h.ok THEN Err("InvalidData", "Invalid header message")
  ELSE IF h.name = <<>> \/ ~NameValid(h.name)
       THEN OkSome([port |-> PortOf(h.port), name |-> NoName])
  ELSE OkSome([port |-> PortOf(h.port), name |-> SomeName(NameOf(h.name))])

\* lib.rs 144-158: the Header of the decoded fields h.
HeaderOf(h) ==
  IF ~h.ok THEN Err("InvalidData", "Invalid header message")
  ELSE IF h.name = <<>> THEN OkSome([port |-> PortOf(h.port), name |-> NoName])
  ELSE IF ~NameValid(h.name) THEN Err("InvalidData", "Invalid name")
  ELSE OkSome([port |-> PortOf(h.port), name |-> SomeName(NameOf(h.name))])

\* Header::decode.  The decoded fields are bound once, as `let h` does.
Decode(bytes) ==
  CHOOSE r \in {HeaderOf(h) : h \in {ProtoDecode(b) : b \in {bytes}}} : TRUE

\* ------------------------------------------------------------------------
\* Frame encoder
\* ------------------------------------------------------------------------

\* Values an uninitialised byte of the buffer's spare capacity may hold:
\* the read is undefined, any byte can be there.
UninitBytes == 0..255

\* s with the bytes at 1-based positions from..from+Len(bytes)-1 replaced.
Overwrite(s, from, bytes) ==
  [i \in 1..Len(s) |->
     IF i >= from /\ i < from + Len(bytes) THEN bytes[i - from + 1] ELSE s[i]]

\* Header::encode_prefaced on a buffer that holds `prior`: the buffer
\* afterwards.  `junk` is what the 4 bytes skipped by advance_mut hold
\* before anything is written to them.
EncodePrefaced(h, prior, junk) ==
  LET afterPreface == prior \o PREFACE
      afterSkip == afterPreface \o junk
      afterEncode == afterSkip \o Encode(h)
      len == Len(afterEncode) - PREFACE_LEN
  IN Overwrite(afterEncode, Len(PREFACE) + 1, PutU32(len))

\* The frame a sender with a fresh buffer puts on the wire.
Frame(h) == EncodePrefaced(h, <<>>, <<0, 0, 0, 0>>)

\* ------------------------------------------------------------------------
\* Frame reader: Header::read_prefaced between two suspension points
\* ------------------------------------------------------------------------

Pending == [kind |-> "pending", header |-> NoHeader, err |-> "", why |-> ""]

\* The task is suspended in read_buf at loop `at`.
Suspend(at, b, ml, chk, rsv) ==
  [pc |-> at, buf |-> PrepareRead(b), result |-> Pending,
   msg_len |-> ml, chk |-> chk, rsv |-> rsv]

\* read_prefaced returns r.
Return(b, r, ml, chk, rsv) ==
  [pc |-> "done", buf |-> b, result |-> r,
   msg_len |-> ml, chk |-> chk, rsv |-> rsv]

\* Faulty variant of SplitTo: the whole buffer is taken (BytesMut::split).
SplitAll(b, n) == [msg |-> b.data, rest |-> Advance(b, Len(b.data))]

\* BytesMut::split_to(n): the first n bytes, and the buffer that is left.
SplitTo(b, n) == [msg |-> Take(b.data, n), rest |-> Advance(b, n)]

\* Faulty variant of IsEof: the end of the stream is never noticed.
IsEofNever(n) == n < 0

\* Faulty variant of IsEof: a read of a single byte is taken for the end.
IsEofShort(n) == n <= 1

\* `io.read_buf(buf).await? == 0`
IsEof(n) == n = 0

\* Faulty variant of NeedPreface: a buffer that does not start with the
\* preface is decided on as soon as it holds the preface's 24 bytes.
NeedPrefaceEager(b) ==
  \/ Len(b.data) < Len(PREFACE)
  \/ Len(b.data) < PREFACE_LEN /\ Take(b.data, Len(PREFACE)) = PREFACE

\* `buf.len() < PREFACE_LEN`
NeedPreface(b) == Len(b.data) < PREFACE_LEN

\* Faulty variant of NeedPayload: one byte more than the payload is awaited.
NeedPayloadOneMore(b, ml) == Len(b.data) <= U32Val(ml)

\* `buf.len() < msg_len`
NeedPayload(b, ml) == Len(b.data) < U32Val(ml)

\* Faulty variant of ExceedsCapacity: the bound is one too large.
ExceedsCapacityLoose(ml, b) == U32Exceeds(ml, b.cap + PREFACE_LEN + 1)

\* `msg_len > buf.capacity() + PREFACE_LEN`
ExceedsCapacity(ml, b) == U32Exceeds(ml, b.cap + PREFACE_LEN)

\* lib.rs 137-138: split the message off and decode it.
Finish(b, ml, chk, rsv) ==
  LET sp == SplitTo(b, U32Val(ml))
  IN Return(sp.rest, Decode(sp.msg), ml, chk, rsv)

\* lib.rs 126-133: the payload loop, up to its next read.
PayloadLoop(b, ml, chk, rsv) ==
  IF NeedPayload(b, ml) THEN Suspend("payload", b, ml, chk, rsv)
  ELSE Finish(b, ml, chk, rsv)

\* Faulty variant of ReadLength: the length is read without being consumed.
ReadLengthPeek(b) ==
  LET ml == GetU32(Take(b.data, 4))
  IN IF ExceedsCapacity(ml, b)
     THEN Return(b, Err("InvalidData", "Message length exceeds capacity"),
                 ml, b.cap, 0)
     ELSE PayloadLoop(Reserve(b, U32Val(ml)), ml, b.cap, 1)

\* lib.rs 115-125: the length, the bound check and the reservation.
\* chk records the capacity the check saw, rsv counts reserve(msg_len).
ReadLength(b) ==
  LET ml == GetU32(Take(b.data, 4))
      b2 == Advance(b, 4)
  IN IF ExceedsCapacity(ml, b2)
     THEN Return(b2, Err("InvalidData", "Message length exceeds capacity"),
                 ml, b2.cap, 0)
     ELSE PayloadLoop(Reserve(b2, U32Val(ml)), ml, b2.cap, 1)

\* Faulty variant of MatchPreface: a buffer without the preface is
\* emptied.
MatchPrefaceClear(b) ==
  IF Take(b.data, Len(PREFACE)) # PREFACE
  THEN Return(Advance(b, Len(b.data)), OkNone, <<0, 0>>, -1, 0)
  ELSE ReadLength(Advance(b, Len(PREFACE)))

\* Faulty variant of MatchPreface: the buffer is advanced before the
\* comparison, so a mismatch consumes the compared bytes.
MatchPrefaceConsume(b) ==
  IF Take(b.data, Len(PREFACE)) # PREFACE
  THEN Return(Advance(b, Len(PREFACE)), OkNone, <<0, 0>>, -1, 0)
  ELSE ReadLength(Advance(b, Len(PREFACE)))

\* lib.rs 108-111: the preface comparison.
MatchPreface(b) ==
  IF Take(b.data, Len(PREFACE)) # PREFACE
  THEN Return(b, OkNone, <<0, 0>>, -1, 0)
  ELSE ReadLength(Advance(b, Len(PREFACE)))

\* Faulty variant of PrefaceLoop: a read is made before the buffer is
\* looked at.
PrefaceLoopReadFirst(b) ==
  IF NeedPreface(b) \/ b.off = 0 THEN Suspend("preface", b, <<0, 0>>, -1, 0)
  ELSE MatchPreface(b)

\* lib.rs 101-105: the preface loop, up to its next read.
PrefaceLoop(b) ==
  IF NeedPreface(b) THEN Suspend("preface", b, <<0, 0>>, -1, 0)
  ELSE MatchPreface(b)

\* Faulty variant of AfterRead: the end of the stream means "no header" in
\* the payload loop too.
AfterReadNone(at, b, n, ml, chk, rsv) ==
  IF IsEof(n) THEN Return(b, OkNone, ml, chk, rsv)
  ELSE IF at = "preface" THEN PrefaceLoop(b)
       ELSE PayloadLoop(b, ml, chk, rsv)

\* Faulty variant of AfterRead: the end of the stream is an error in the
\* preface loop too.
AfterReadFatal(at, b, n, ml, chk, rsv) ==
  IF IsEof(n)
  THEN Return(b, Err("UnexpectedEof", "Full header message not provided"),
              ml, chk, rsv)
  ELSE IF at = "preface" THEN PrefaceLoop(b)
       ELSE PayloadLoop(b, ml, chk, rsv)

\* A read_buf suspended at loop `at` completed with n bytes (already
\* appended to b); n = 0 is the end of the stream.
AfterRead(at, b, n, ml, chk, rsv) ==
  IF IsEof(n)
  THEN IF at = "preface" THEN Return(b, OkNone, ml, chk, rsv)
       ELSE Return(b, Err("UnexpectedEof", "Full header message not provided"),
                   ml, chk, rsv)
  ELSE IF at = "preface" THEN PrefaceLoop(b)
       ELSE PayloadLoop(b, ml, chk, rsv)

\* Faulty variant of AfterError: a failed read is taken for "no header".
AfterErrorNone(b, ml, chk, rsv) == Return(b, OkNone, ml, chk, rsv)

\* A read_buf completed with an I/O error: `?` returns it.
AfterError(b, ml, chk, rsv) ==
  Return(b, Err("Io", "transport"), ml, chk, rsv)

\* ------------------------------------------------------------------------
\* Inputs of the model
\* ------------------------------------------------------------------------

\* b"foo.bar.example.com"
FooName ==
  <<102, 111, 111, 46, 98, 97, 114, 46, 101, 120, 97, 109, 112, 108, 101,
    46, 99, 111, 109>>

\* A one-label name of n letters.
MkName(n) == [i \in 1..n |-> 97]

Ports == {0, 1, 80, 4040, 65535}

NameLens == {1, MaxNameLen - 4, MaxNameLen - 2, MaxNameLen}

Names == {NoName, SomeName(FooName)} \cup {SomeName(MkName(n)) : n \in NameLens}

\* Every Header of the model.
Headers == [port : Ports, name : Names]

\* The headers a peer sends in the detection runs.
SentHeaders ==
  {[port |-> 4040, name |-> SomeName(FooName)],
   [port |-> 0, name |-> NoName],
   [port |-> 65535, name |-> SomeName(MkName(1))]}
  \cup {[port |-> 4040, name |-> SomeName(MkName(n))] : n \in NameLens \ {1}}

\* b"12345", and the trailing byte strings T
Digits == <<49, 50, 51, 52, 53>>

Trails == {Take(Digits, k) : k \in 0..MaxTrail}

\* b"GET / HTTP/1.1\r\nHost: example.com\r\n\r\n"
HttpMsg ==
  <<71, 69, 84, 32, 47, 32, 72, 84, 84, 80, 47, 49, 46, 49, 13, 10, 72, 111,
    115, 116, 58, 32, 101, 120, 97, 109, 112, 108, 101, 46, 99, 111, 109,
    13, 10, 13, 10>>

\* n filler bytes
Filler(n) == [i \in 1..n |-> 0]

\* A preface, a declared length of <<hi, lo>> and n bytes after it.
Declared(hi, lo, n) ==
  PREFACE \o <<hi \div 256, hi % 256, lo \div 256, lo % 256>> \o Filler(n)

\* Payloads that are no schema encoding of a header, or carry a bad name.
BadPayloads ==
  {<<8>>,                       \* port key, no value
   <<18, 5, 97>>,               \* name longer than the payload
   <<18, 2, 195, 40>>,          \* name that is not UTF-8
   <<18, 3, 97, 46, 46>>,       \* name "a.."
   <<18, 2, 45, 97>>,           \* name "-a"
   <<7>>,                       \* wire type 7
   <<0>>}                       \* tag 0

\* Payloads that decode although Header::encode never writes them.
OddPayloads ==
  {<<8, 128, 128, 4>>,                           \* port 65536
   <<8, 255, 255, 255, 255, 255, 255, 255, 255, 255, 1>>,  \* port -1
   <<8, 1, 8, 2>>,                               \* port twice
   <<24, 7, 8, 80>>,                             \* unknown field 3
   <<18, 3, 65, 46, 66>>}                        \* name "A.B"

\* Streams that are no complete frame of a sent header.
RawWires ==
  {HttpMsg, Take(HttpMsg, 26), Take(HttpMsg, 29),
   Take(PREFACE, 21) \o <<0, 0, 0, 9, 1>>,
   Take(PREFACE, 23) \o <<0, 0, 0, 0, 1, 8, 1>>}
  \cup {Declared(0, l, 3) : l \in {0, 2, 3, 4}}
  \cup {Declared(0, l, 70) : l \in {63, 64, 65, 66, 300}}
  \cup {Declared(1, 0, 3), Declared(65535, 65535, 3)}
  \cup {PREFACE \o PutU32(Len(pl)) \o pl \o <<49>> : pl \in BadPayloads \cup OddPayloads}

\* Where a frame is cut short.
Cuts(f) == {0, 1, Len(PREFACE) - 1, Len(PREFACE), PREFACE_LEN - 1,
            PREFACE_LEN, Len(f) - 1} \cap 0..(Len(f) - 1)

CutHeaders ==
  {[port |-> 4040, name |-> SomeName(FooName)], [port |-> 0, name |-> NoName]}

\* What the peer puts on the wire.
Scenarios ==
  {[kind |-> "frame", h |-> h, trail |-> t, wire |-> Frame(h) \o t] :
      h \in SentHeaders, t \in Trails}
  \cup UNION {{[kind |-> "cut", h |-> h, trail |-> <<>>,
                wire |-> Take(Frame(h), k)] : k \in Cuts(Frame(h))} :
              h \in CutHeaders}
  \cup {[kind |-> "raw", h |-> NoHeader, trail |-> <<>>, wire |-> w] :
          w \in RawWires}

\* How the transport ends after the last byte: end of stream, an I/O
\* error, or a peer that keeps the connection open and silent.
Ends == {"eof", "err", "open"}

\* <<j, c>>: the first j bytes of the wire are in the caller's buffer on
\* entry, and the buffer has capacity c.
Entries(w) ==
  {e \in {<<0, 0>>, <<0, 16>>, <<0, 128>>, <<5, 5>>, <<5, 16>>,
          <<PREFACE_LEN, PREFACE_LEN>>, <<Len(w), Len(w)>>, <<Len(w), Len(w) + 8>>} :
     e[1] <= Len(w)}

\* The sizes a read that finds `avail` bytes deliverable may return.
Chunks(avail) == (1..Min(avail, MaxChunk)) \cup {avail}

\* ------------------------------------------------------------------------
\* State
\* ------------------------------------------------------------------------

VARIABLES
  buf,      \* the caller's BytesMut
  io,       \* the bytes the transport has not delivered yet
  ioEnd,    \* how the transport ends, see Ends
  pc,       \* "idle", "preface", "payload", "done", "cancelled" ("off": no detection)
  result,   \* what read_prefaced returned, Pending before
  msg_len,  \* the local msg_len as a u32 pair
  chk,      \* buf.capacity() as the bound check saw it, -1 before the check
  rsv,      \* number of buf.reserve(msg_len) calls made
  entry,    \* history: the buffer on entry to detect
  taken,    \* history: the bytes read from the transport by this call
  last,     \* history: how the last read ended: "none", "data", "eof", "err"
  scn,      \* history: what the peer put on the wire
  wpc,      \* codec run: "new", "encoded", "decoded", "bare", "bare-decoded",
            \* "wire" ("off": no codec run)
  whdr,     \* codec run: the Header to encode
  wprior,   \* codec run: the content of the buffer before encode_prefaced
  wbuf,     \* codec run: the sender's buffer
  wdec,     \* codec run: what Header::decode returned
  wport,    \* codec run: the int32 port of a payload of another writer
  det,      \* the DetectHeader instance that serves the connections
  conn,     \* history: the number of connections det was called for
  calls,    \* history: the number of calls made for this connection
  rpc,      \* report run: "new", "pass", "done" ("off": no report run)
  reg,      \* report run: the registry behind Report::registry
  rnow,     \* report run: clock::now() of the fmt_metrics call
  rout,     \* report run: the lines fmt_metrics wrote to the formatter
  rret,     \* report run: what fmt_metrics returned, "pending" before
  reg0,     \* history: the registry before fmt_metrics
  rpass,    \* report run: 1 in fmt_by_target, 2 in fmt_by_status, 3 in
            \* fmt_by_class, 0 outside of them
  ridx,     \* report run: the index in by_target of the next tm.lock()
  rleft,    \* report run: the writes the formatter still accepts, -1: all
  rlog,     \* history: <<pass, target, whether tm.lock() succeeded>>
  renv      \* history: the number of steps other holders of a target took

detectVars ==
  <<buf, io, ioEnd, pc, result, msg_len, chk, rsv, entry, taken, last, scn,
    det, alloc, conn, calls>>

codecVars == <<wpc, whdr, wprior, wbuf, wdec, wport>>

vars == <<buf, io, ioEnd, pc, result, msg_len, chk, rsv, entry, taken, last, scn,
          wpc, whdr, wprior, wbuf, wdec, wport, det, alloc, conn, calls,
          rpc, reg, rnow, rout, rret, reg0, rpass, ridx, rleft, rlog, renv>>

reportVars == <<rpc, reg, rnow, rout, rret, reg0, rpass, ridx, rleft, rlog, renv>>

\* A registry without targets whose lock is sound.
NoRegistry == [poisoned |-> FALSE, by_target |-> <<>>]

ReportOff ==
  /\ rpc = "off" /\ reg = NoRegistry /\ rnow = 0 /\ rout = <<>>
  /\ rret = "pending" /\ reg0 = NoRegistry
  /\ rpass = 0 /\ ridx = 0 /\ rleft = -1 /\ rlog = {} /\ renv = 0

\* DetectHeader::default(): DetectHeader(()) has a single value.
DetectHeaderDefault == <<>>

NoScenario == [kind |-> "raw", h |-> NoHeader, trail |-> <<>>, wire |-> <<>>]

DetectOff ==
  /\ buf = NewBuf(<<>>, 0) /\ io = <<>> /\ ioEnd = "open" /\ pc = "off"
  /\ result = Pending /\ msg_len = <<0, 0>> /\ chk = -1 /\ rsv = 0
  /\ entry = NewBuf(<<>>, 0) /\ taken = <<>> /\ last = "none"
  /\ scn = NoScenario
  /\ det = DetectHeaderDefault /\ alloc = "fits" /\ conn = 0 /\ calls = 0

CodecOff ==
  /\ wpc = "off" /\ whdr = NoHeader /\ wprior = <<>> /\ wbuf = <<>>
  /\ wdec = Pending /\ wport = 0

\* A connection is accepted: the peer's bytes are on the wire, some of them
\* possibly in the caller's buffer already.
Init ==
  /\ scn \in Scenarios
  /\ ioEnd \in Ends
  /\ \E e \in Entries(scn.wire) :
       /\ buf = NewBuf(Take(scn.wire, e[1]), e[2])
       /\ io = Drop(scn.wire, e[1])
  /\ entry = buf
  /\ taken = <<>>
  /\ last = "none"
  /\ pc = "idle"
  /\ result = Pending
  /\ msg_len = <<0, 0>>
  /\ chk = -1
  /\ rsv = 0
  /\ det = DetectHeaderDefault
  /\ alloc \in ReservePolicies
  /\ conn = 1
  /\ calls = 1
  /\ CodecOff
  /\ ReportOff

\* Faulty variant of Propagate: an error of the frame reader is swallowed.
PropagateSwallow(r) == IF r.kind = "err" THEN OkNone ELSE r

\* lib.rs 41-42: `?` hands an error of read_prefaced on, Ok(header) hands
\* its Some or None on.
Propagate(r) == r

\* The locals of read_prefaced after a run up to its next suspension point
\* or its return, and what detect returns then.
Apply(l) ==
  /\ pc' = l.pc
  /\ buf' = l.buf
  /\ result' = Propagate(l.result)
  /\ msg_len' = l.msg_len
  /\ chk' = l.chk
  /\ rsv' = l.rsv

Suspended == pc \in {"preface", "payload"}

\* DetectHeader::detect: calls Header::read_prefaced, which runs up to its
\* first read or, with enough bytes buffered, to its return.
Detect ==
  /\ pc = "idle"
  /\ \E l \in {PrefaceLoop(buf)} : Apply(l)
  /\ UNCHANGED <<io, ioEnd, entry, taken, last, scn, det, alloc, conn, calls>>
  /\ UNCHANGED <<codecVars, reportVars>>

\* The pending read_buf completes with n >= 1 bytes, at most the spare
\* capacity of the buffer.
ReadData ==
  /\ Suspended
  /\ io # <<>>
  /\ \E n \in Chunks(Min(Spare(buf), Len(io))) :
       /\ \E l \in {AfterRead(pc, PutBytes(buf, Take(io, n)), n, msg_len, chk, rsv)} :
            Apply(l)
       /\ io' = Drop(io, n)
       /\ taken' = taken \o Take(io, n)
  /\ last' = "data"
  /\ UNCHANGED <<ioEnd, entry, scn, det, alloc, conn, calls>>
  /\ UNCHANGED <<codecVars, reportVars>>

\* The pending read_buf completes with 0 bytes: end of stream.
ReadEof ==
  /\ Suspended
  /\ io = <<>>
  /\ ioEnd = "eof"
  /\ \E l \in {AfterRead(pc, buf, 0, msg_len, chk, rsv)} : Apply(l)
  /\ last' = "eof"
  /\ UNCHANGED <<io, ioEnd, entry, taken, scn, det, alloc, conn, calls>>
  /\ UNCHANGED <<codecVars, reportVars>>

\* The pending read_buf completes with an I/O error.
ReadError ==
  /\ Suspended
  /\ io = <<>>
  /\ ioEnd = "err"
  /\ \E l \in {AfterError(buf, msg_len, chk, rsv)} : Apply(l)
  /\ last' = "err"
  /\ UNCHANGED <<io, ioEnd, entry, taken, scn, det, alloc, conn, calls>>
  /\ UNCHANGED <<codecVars, reportVars>>

\* The task is dropped while it awaits the transport.
Cancel ==
  /\ Suspended
  /\ pc' = "cancelled"
  /\ UNCHANGED <<buf, io, ioEnd, result, msg_len, chk, rsv, entry, taken, last, scn,
                 det, alloc, conn, calls>>
  /\ UNCHANGED <<codecVars, reportVars>>

Next == Detect \/ ReadData \/ ReadEof \/ ReadError \/ Cancel

Spec == Init /\ [][Next]_vars

\* ------------------------------------------------------------------------
\* Codec runs: encode_prefaced into a buffer, then decode of its payload
\* ------------------------------------------------------------------------

\* What the sender's buffer holds before encode_prefaced.  Every byte of
\* prior content leaves one more uninitialised byte in the frame (up to 4).
Priors == {<<>>, <<7>>}

\* The positions 1..4 of the bytes skipped by advance_mut that the
\* back-filled length, written at offsets Len(PREFACE)..PREFACE_LEN of the
\* buffer, does not reach when the buffer held `prior`.
Surviving(prior) == {i \in 1..4 : Len(prior) + Len(PREFACE) + i > PREFACE_LEN}

CodecInit ==
  /\ whdr \in Headers
  /\ wprior \in Priors
  /\ wbuf = wprior
  /\ wpc = "new"
  /\ wdec = Pending
  /\ wport = 0
  /\ DetectOff
  /\ ReportOff

\* Header::encode_prefaced(&whdr, &mut wbuf).  The skipped bytes that the
\* length overwrites are written before they are read; each of the others
\* holds any byte.
EncodeHeader ==
  /\ wpc = "new"
  /\ \E left \in [Surviving(wbuf) -> UninitBytes] :
       wbuf' = EncodePrefaced(whdr, wbuf,
                 [i \in 1..4 |-> IF i \in Surviving(wbuf) THEN left[i] ELSE 0])
  /\ wpc' = "encoded"
  /\ UNCHANGED <<whdr, wprior, wdec, wport>>
  /\ UNCHANGED <<detectVars, reportVars>>

\* Header::decode of the payload, the bytes after the frame's first
\* PREFACE_LEN bytes.
DecodePayload ==
  /\ wpc = "encoded"
  /\ wdec' = Decode(Drop(wbuf, Len(wprior) + PREFACE_LEN))
  /\ wpc' = "decoded"
  /\ UNCHANGED <<whdr, wprior, wbuf, wport>>
  /\ UNCHANGED <<detectVars, reportVars>>

\* The int32 port values a payload of another writer carries.
WirePorts ==
  {0, 1, 80, 4040, 65535, 65536, 65537, 200648, 2147483647,
   -1, -4040, -65535, -65536, -65537, -2147483647, -2147483647 - 1}

\* The payload of proto::Header { port: w, name } with the port written
\* even when it is 0.
WirePayload(w, name) ==
  <<8>> \o EncodeInt32(w)
  \o (IF name # <<>> THEN <<18>> \o EncodeVarint(Len(name)) \o name ELSE <<>>)

\* Header::decode of a payload that carries the int32 port w.
DecodeWirePort ==
  /\ wpc = "new"
  /\ wprior = <<>>
  /\ \E w \in WirePorts :
       /\ wport' = w
       /\ wbuf' = WirePayload(w, IF whdr.name.some THEN whdr.name.val ELSE <<>>)
       /\ wdec' = Decode(WirePayload(w, IF whdr.name.some THEN whdr.name.val ELSE <<>>))
  /\ wpc' = "wire"
  /\ UNCHANGED <<whdr, wprior>>
  /\ UNCHANGED <<detectVars, reportVars>>

\* Header::encode(&whdr, &mut wbuf): the payload alone is appended.
EncodeBare ==
  /\ wpc = "new"
  /\ wbuf' = wbuf \o Encode(whdr)
  /\ wpc' = "bare"
  /\ UNCHANGED <<whdr, wprior, wdec, wport>>
  /\ UNCHANGED <<detectVars, reportVars>>

\* Header::decode of the payload Header::encode appended.
DecodeBare ==
  /\ wpc = "bare"
  /\ wdec' = Decode(Drop(wbuf, Len(wprior)))
  /\ wpc' = "bare-decoded"
  /\ UNCHANGED <<whdr, wprior, wbuf, wport>>
  /\ UNCHANGED <<detectVars, reportVars>>

CodecNext ==
  EncodeHeader \/ DecodePayload \/ EncodeBare \/ DecodeBare \/ DecodeWirePort

SpecCodec == CodecInit /\ [][CodecNext]_vars

\* ------------------------------------------------------------------------
\* Properties
\* ------------------------------------------------------------------------

\* Every byte this call had before it, in stream order: the buffer on entry
\* followed by what was read from the transport.
Seen == entry.data \o taken

Returned == pc = "done"

\* The peer sent a complete frame and the caller's buffer was empty.
FrameOnEmpty == scn.kind = "frame" /\ entry.data = <<>>

\* The header h was returned and exactly the trailing bytes t are left,
\* in the buffer as far as they were read and on the transport otherwise.
YieldsHeader(h, t) ==
  /\ result.kind = "some"
  /\ result.header.port = h.port
  /\ result.header.name = h.name
  /\ buf.data \o io = t

\* C1 as stated: for every Header h and trailing bytes T, detection on an
\* empty buffer over encode_prefaced(h) followed by T returns Some(h) and
\* leaves exactly the bytes of T that were read in the buffer.
C1_Original ==
  (Returned /\ FrameOnEmpty) => YieldsHeader(scn.h, scn.trail)

\* C1, amended: the same for every Header h whose encoded payload is no
\* longer than the capacity the buffer has once the preface and the length
\* are consumed plus PREFACE_LEN (64 bytes for a buffer created empty
\* without capacity); a longer payload is refused by the bound check.
C1_TrailingBytesPreserved ==
  (Returned /\ FrameOnEmpty /\ Len(Encode(scn.h)) <= chk + PREFACE_LEN)
    => YieldsHeader(scn.h, scn.trail)

\* A frame with trailing bytes was detected by a read that took one of the
\* two trailing bytes along.
C1_Witness ==
  /\ Returned /\ FrameOnEmpty /\ result.kind = "some"
  /\ Len(scn.trail) = 2 /\ Len(buf.data) = 1 /\ Len(io) = 1

\* C2 as stated: with at least 25 bytes buffered whose first 21 differ from
\* the preface, detection returns None and the buffer is its content on
\* entry followed by the bytes read.
C2_Original ==
  (Returned /\ Len(Seen) >= 25 /\ Take(Seen, 21) # Take(PREFACE, 21))
    => (result = OkNone /\ buf.data = Seen)

\* C2, amended: with at least PREFACE_LEN (28) bytes buffered whose first
\* Len(PREFACE) (24) differ from PREFACE, detection returns None and the
\* buffer is its content on entry followed by the bytes read.
C2_MismatchLeavesBuffer ==
  (Returned /\ Len(Seen) >= PREFACE_LEN /\ Take(Seen, Len(PREFACE)) # PREFACE)
    => (result = OkNone /\ buf.data = Seen)

\* An HTTP request, part of it buffered on entry and part of it read, was
\* found to carry no header.
C2_Witness ==
  /\ Returned /\ result = OkNone /\ Len(Seen) >= PREFACE_LEN
  /\ IsPrefix(Seen, HttpMsg) /\ entry.data # <<>> /\ taken # <<>>

\* What a caller can tell apart in a result: Some(port, name), None, or
\* the kind of the error.
Outcome(r) == <<r.kind, r.header, r.err>>

\* read_prefaced run to its end when every read returns all that is
\* available and fits: the fewest reads possible.  l are the locals at a
\* suspension point or at the return, rest is what the transport holds.
RECURSIVE RunWhole(_, _, _)
RunWhole(l, rest, end) ==
  IF l.pc = "done" THEN l.result
  ELSE IF rest = <<>>
       THEN IF end = "eof"
            THEN AfterRead(l.pc, l.buf, 0, l.msg_len, l.chk, l.rsv).result
            ELSE IF end = "err"
                 THEN AfterError(l.buf, l.msg_len, l.chk, l.rsv).result
                 ELSE Pending
  ELSE RunWhole(AfterRead(l.pc,
                          PutBytes(l.buf, Take(rest, Min(Spare(l.buf), Len(rest)))),
                          Min(Spare(l.buf), Len(rest)),
                          l.msg_len, l.chk, l.rsv),
                Drop(rest, Min(Spare(l.buf), Len(rest))), end)

\* C3: for a fixed stream, ending and initial buffer, the outcome of
\* detection is the same however the transport splits the stream into
\* reads: whatever reads led to the return, the outcome is the one of the
\* run with the fewest, largest reads.
C3_FragmentationIndependent ==
  Returned =>
    Outcome(result)
      = Outcome(RunWhole(PrefaceLoop(entry), Drop(scn.wire, Len(entry.data)), ioEnd))

\* A header was returned from a buffer of capacity 16, which no single
\* read can fill with a preface, a length or the payload.
C3_Witness ==
  /\ Returned /\ result.kind = "some" /\ result.header.name.some
  /\ entry = NewBuf(<<>>, 16)

\* The bytes of the stream that the returned result accounts for: a decoded
\* frame's PREFACE_LEN + msg_len bytes, nothing otherwise.
Attributed ==
  IF result.kind = "some" THEN PREFACE_LEN + U32Val(msg_len) ELSE 0

\* C4 as stated: on every return (Some, None or error) the buffer holds
\* exactly the bytes it had on entry or read during the call that are not
\* part of a decoded frame, in order.
C4_Original ==
  Returned => buf.data = Drop(Seen, Attributed)

\* The bytes read_prefaced has consumed when it returns an error.
ConsumedOnError ==
  IF chk < 0 THEN 0
  ELSE IF result.why \in {"Invalid header message", "Invalid name"}
       THEN PREFACE_LEN + U32Val(msg_len)
       ELSE PREFACE_LEN

\* C4, amended: on a return of Some or None the buffer holds exactly the
\* bytes it had on entry or read during the call that are not part of a
\* decoded frame, in order; on an error the buffer holds those bytes less
\* what was consumed before the failure: nothing before the preface
\* matched, the preface and the length after it, and the payload too when
\* decoding it failed.  What the transport still holds follows in order.
C4_ByteConservation ==
  Returned =>
    /\ result.kind \in {"some", "none"} => buf.data = Drop(Seen, Attributed)
    /\ result.kind = "err" => buf.data = Drop(Seen, ConsumedOnError)
    /\ Seen \o io = entry.data \o Drop(scn.wire, Len(entry.data))

\* The stream ended inside the payload: the error is returned with the
\* payload bytes read so far in the buffer and the preface gone.
C4_Witness ==
  /\ Returned /\ result.err = "UnexpectedEof"
  /\ buf.data # <<>> /\ taken # <<>> /\ buf.data = Drop(Seen, PREFACE_LEN)

\* The u32 at bytes 22..25 of the stream: the length field of a frame whose
\* preface were 21 bytes long.
LengthAt21 == GetU32(SubSeq(Seen, 22, 25))

\* C5 as stated: when the first 21 buffered bytes are the preface, the 4
\* bytes after them are a length within the bound, and the stream ends with
\* fewer payload bytes buffered than that length, detection fails with
\* UnexpectedEof.
C5_Original ==
  (/\ Returned /\ last = "eof"
   /\ Len(Seen) >= 25 /\ Take(Seen, 21) = Take(PREFACE, 21)
   /\ ~U32Exceeds(LengthAt21, buf.cap)
   /\ U32Exceeds(LengthAt21, Len(Seen) - 25))
    => (result.kind = "err" /\ result.err = "UnexpectedEof")

\* C5, amended: when the first Len(PREFACE) (24) buffered bytes are PREFACE,
\* the 4 bytes after them are a length msg_len that passed the bound check,
\* and the stream ends while fewer than msg_len payload bytes are buffered,
\* detection fails with UnexpectedEof: it returns neither None nor a Header.
C5_TruncatedIsFatal ==
  (/\ Returned /\ last = "eof"
   /\ Len(Seen) >= PREFACE_LEN /\ Take(Seen, Len(PREFACE)) = PREFACE
   /\ ~U32Exceeds(GetU32(SubSeq(Seen, Len(PREFACE) + 1, PREFACE_LEN)),
                  chk + PREFACE_LEN)
   /\ U32Exceeds(GetU32(SubSeq(Seen, Len(PREFACE) + 1, PREFACE_LEN)),
                 Len(Seen) - PREFACE_LEN))
    => (result.kind = "err" /\ result.err = "UnexpectedEof")

\* A frame cut short inside its payload, read from the transport up to
\* the end of the stream.
C5_Witness ==
  /\ Returned /\ last = "eof" /\ scn.kind = "cut"
  /\ result.err = "UnexpectedEof" /\ Len(taken) > PREFACE_LEN
  /\ buf.data # <<>>

\* The bound check was made and msg_len exceeded capacity + extra.
Oversized(extra) == chk >= 0 /\ U32Exceeds(msg_len, chk + extra)

\* The length was refused: InvalidData is returned at once, with no
\* reservation made and the capacity as the check saw it.
Refused ==
  /\ Returned
  /\ result = Err("InvalidData", "Message length exceeds capacity")
  /\ rsv = 0
  /\ buf.cap = chk

\* C6 as stated: a msg_len above the remaining capacity plus 25 is refused
\* with InvalidData, without a further read or a reservation, and a
\* reservation is only made for a msg_len of at most capacity + 25.
C6_Original ==
  /\ Oversized(25) => Refused
  /\ rsv > 0 => ~Oversized(25)

\* C6, amended: a msg_len above the remaining capacity plus PREFACE_LEN
\* (28) is refused with InvalidData, without a further read or a
\* reservation, so the capacity does not grow for it; and a reservation is
\* only made for a msg_len of at most capacity + 28.
C6_OversizedRefused ==
  /\ Oversized(PREFACE_LEN) => Refused
  /\ rsv > 0 => ~Oversized(PREFACE_LEN)

\* A declared length of 65 was refused by a buffer whose capacity after
\* the preface and the length was 36: one more than the bound.
C6_Witness ==
  /\ Refused /\ msg_len = <<0, 65>> /\ chk = 36 /\ taken # <<>>

\* C7: when the stream ends before PREFACE_LEN bytes are buffered (the
\* threshold of the code is 28, which covers the 25 of the claim),
\* detection returns None, also when the bytes are a prefix of the preface
\* or the whole preface with an incomplete length, and the buffer holds
\* every byte, unconsumed.
C7_EarlyEofIsNotPresent ==
  (Returned /\ last = "eof" /\ Len(Seen) < PREFACE_LEN)
    => (result = OkNone /\ buf.data = Seen)

\* The stream ended after the whole preface and no byte of the length.
C7_Witness ==
  /\ Returned /\ last = "eof" /\ result = OkNone
  /\ Seen = PREFACE /\ taken # <<>> /\ buf.data = PREFACE

\* C8 as stated: encode_prefaced leaves the buffer as its prior content,
\* then PREFACE, then the big-endian length of the payload alone, then the
\* payload.
C8_Original ==
  wpc \in {"encoded", "decoded"} =>
    wbuf = wprior \o PREFACE \o PutU32(Len(Encode(whdr))) \o Encode(whdr)

\* C9: decoding the payload that encode_prefaced wrote yields Some(Header)
\* with the port and the name of the encoded Header; a Header without a
\* name carries no name bytes and decodes to a Header without a name.
C9_RoundTrip ==
  wpc \in {"decoded", "bare-decoded"} =>
    /\ wdec.kind = "some"
    /\ wdec.header.port = whdr.port
    /\ wdec.header.name = whdr.name
    /\ ~whdr.name.some => Encode(whdr) = ProtoEncode(whdr.port, <<>>)

\* The largest port and the longest name went through the codec.
C9_Witness ==
  /\ wpc = "decoded" /\ wdec.kind = "some"
  /\ whdr.port = 65535 /\ whdr.name = SomeName(MkName(MaxNameLen))
  /\ wdec.header = whdr

Cancelled == pc = "cancelled"

\* C10 as stated: a task cancelled while it awaits a read, in either loop,
\* has produced no Header, and the buffer holds every byte read so far.
C10_Original ==
  Cancelled => (result = Pending /\ buf.data = Seen)

\* C10, amended: a task cancelled while it awaits a read has produced no
\* Header; cancelled in the preface loop the buffer holds every byte read
\* so far, in order; cancelled in the payload loop it holds them less the
\* PREFACE_LEN bytes of the preface and the length, which were consumed
\* when the preface matched.
C10_CancellationSafety ==
  Cancelled =>
    /\ result = Pending
    /\ chk < 0 => buf.data = Seen
    /\ chk >= 0 => (buf.data = Drop(Seen, PREFACE_LEN) /\ IsPrefix(PREFACE, Seen))

\* The task was cancelled in the payload loop with part of the payload
\* read.
C10_Witness ==
  /\ Cancelled /\ chk >= 0 /\ taken # <<>> /\ buf.data # <<>>
  /\ Len(buf.data) < U32Val(msg_len)

\* ------------------------------------------------------------------------
\* Runs to completion: no task is dropped, and a read that can complete
\* does complete
\* ------------------------------------------------------------------------

LiveNext == Detect \/ ReadData \/ ReadEof \/ ReadError

\* The executor polls the task until it returns, and the transport
\* completes a read whenever it has bytes, its end or an error to deliver.
SpecLive ==
  /\ Init
  /\ [][LiveNext]_vars
  /\ WF_vars(Detect)
  /\ WF_vars(ReadData)
  /\ WF_vars(ReadEof)
  /\ WF_vars(ReadError)

\* Every read completes: the peer does not fall silent with the
\* connection open.
ReadsComplete == ioEnd # "open"

\* C11: provided every read completes, detection eventually returns, with
\* exactly one of Some(Header), None or an error, which does not change
\* afterwards; None is returned with nothing consumed from the buffer, and
\* InvalidData or UnexpectedEof only after the preface matched.
C11_TerminatesWithOneOutcome ==
  /\ ReadsComplete ~> Returned
  /\ [](Returned => result.kind \in {"some", "none", "err"})
  /\ [](~Returned => result = Pending)
  /\ [][Returned => (Returned' /\ result' = result)]_vars
  /\ []((Returned /\ result.kind = "none") => buf.data = Seen)
  /\ []((Returned /\ result.err \in {"InvalidData", "UnexpectedEof"})
          => (IsPrefix(PREFACE, Seen) /\ chk >= 0))

\* A frame was read in several reads up to the end of the stream and
\* detection returned its header.
C11_Witness ==
  /\ Returned /\ ReadsComplete /\ result.kind = "some"
  /\ Len(taken) > PREFACE_LEN /\ io = <<>> /\ scn.kind = "frame"

\* The error the transport of the model fails a read with.
TransportError == Err("Io", "transport")

\* C12: when a read of the transport fails, in the preface loop or in the
\* payload loop, detection returns that error at once: no further read is
\* made, no Header and no None is produced, and the failing read removes
\* nothing from the buffer, which keeps the bytes earlier reads appended.
C12_TransportErrorPropagates ==
  /\ [][ReadError => (/\ pc' = "done" /\ result' = TransportError
                      /\ buf' = buf /\ io' = io /\ taken' = taken)]_vars
  /\ [](last = "err" =>
          /\ Returned /\ result = TransportError
          /\ buf.data = Drop(Seen, IF chk >= 0 THEN PREFACE_LEN ELSE 0))

\* A read failed in the payload loop after earlier reads had delivered
\* part of the payload, which is still in the buffer.
C12_Witness ==
  /\ Returned /\ last = "err" /\ result = TransportError
  /\ chk >= 0 /\ Len(taken) > PREFACE_LEN /\ buf.data # <<>>

\* ------------------------------------------------------------------------
\* One DetectHeader instance reused for the next connection
\* ------------------------------------------------------------------------

\* What the later connections carry, and how their transport ends.
Reconnects ==
  {[scn |-> sc, end |-> e] :
     sc \in {x \in Scenarios :
               \/ x.wire = HttpMsg
               \/ x.kind = "frame" /\ x.h.name = SomeName(FooName)
                                   /\ x.trail = Take(Digits, MaxTrail)
               \/ x.kind = "cut" /\ x.h.name = SomeName(FooName)
                                 /\ Len(x.wire) = PREFACE_LEN},
     e \in {"eof", "err"}}

\* The call for one connection is over; the same instance is handed the
\* next connection with a buffer of its own.
Accept ==
  /\ pc \in {"done", "cancelled"}
  /\ conn < MaxConns
  /\ \E r \in Reconnects :
       /\ scn' = r.scn
       /\ ioEnd' = r.end
       /\ io' = r.scn.wire
  /\ buf' = NewBuf(<<>>, 0)
  /\ entry' = NewBuf(<<>>, 0)
  /\ taken' = <<>>
  /\ last' = "none"
  /\ pc' = "idle"
  /\ result' = Pending
  /\ msg_len' = <<0, 0>>
  /\ chk' = -1
  /\ rsv' = 0
  /\ conn' = conn + 1
  /\ calls' = 1
  /\ UNCHANGED <<det, alloc>>
  /\ UNCHANGED <<codecVars, reportVars>>

ReuseNext == Detect \/ ReadData \/ ReadEof \/ ReadError \/ Cancel \/ Accept

SpecReuse == Init /\ [][ReuseNext]_vars

\* The locals of Header::read_prefaced after the step the transport lets
\* it take in this state, when the read it awaits delivers n bytes.
ReadPrefacedStep(n) ==
  IF pc = "idle" THEN PrefaceLoop(buf)
  ELSE IF io # <<>>
       THEN AfterRead(pc, PutBytes(buf, Take(io, n)), n, msg_len, chk, rsv)
  ELSE IF ioEnd = "eof" THEN AfterRead(pc, buf, 0, msg_len, chk, rsv)
  ELSE AfterError(buf, msg_len, chk, rsv)

\* A step of the call that is under way (not its cancellation, and not the
\* next connection).
CallStep == pc \in {"idle", "preface", "payload"} /\ pc' # "cancelled"

\* C13: DetectHeader::detect behaves as Header::read_prefaced: step by
\* step it returns what read_prefaced returns (Some, None or the same
\* error) and leaves the buffer and the transport as read_prefaced does;
\* the instance holds no state and is never changed, so the outcome of a
\* call for a later connection is determined by that connection alone.
C13_DetectIsStatelessWrapper ==
  /\ [][CallStep =>
         \E l \in {ReadPrefacedStep(Len(taken') - Len(taken))} :
            /\ result' = l.result /\ buf' = l.buf /\ pc' = l.pc
            /\ io' = Drop(io, Len(taken') - Len(taken))]_vars
  /\ [](det = DetectHeaderDefault)
  /\ []((Returned /\ conn > 1) =>
          Outcome(result) = Outcome(RunWhole(PrefaceLoop(NewBuf(<<>>, 0)),
                                             scn.wire, ioEnd)))

\* The instance was called for a second connection and returned its
\* header, with the trailing bytes left.
C13_Witness ==
  /\ Returned /\ conn = 2 /\ result.kind = "some"
  /\ result.header.name = SomeName(FooName)
  /\ buf.data \o io = Take(Digits, MaxTrail)

\* C14: a payload whose port is the int32 w decodes, whatever w is, to a
\* Header with port w mod 65536; and the payload Header::encode writes for
\* the port p carries the int32 p, which the narrowing maps to p itself.
C14_PortNarrowing ==
  /\ wpc = "wire" =>
       /\ wdec.kind = "some"
       /\ wdec.header.port = wport % 65536
       /\ wdec.header.name = whdr.name
  /\ wpc \in {"encoded", "decoded"} =>
       /\ ProtoDecode(Encode(whdr)).port = <<0, whdr.port>>
       /\ PortOf(ProtoDecode(Encode(whdr)).port) = whdr.port

\* The int32 -4040 of a payload with a name was narrowed to 61496.
C14_Witness ==
  /\ wpc = "wire" /\ wport = -4040 /\ whdr.name = SomeName(FooName)
  /\ wdec.kind = "some" /\ wdec.header.port = 61496

\* read_prefaced had the whole payload and returned from decoding it.
DecodeReached ==
  /\ Returned /\ rsv = 1 /\ last \in {"none", "data"}
  /\ Len(Seen) >= PREFACE_LEN + U32Val(msg_len)

\* The msg_len bytes after the preface and the length.
PayloadSeen == SubSeq(Seen, PREFACE_LEN + 1, PREFACE_LEN + U32Val(msg_len))

\* C15: when the payload is no well-formed encoding of the schema, or it
\* decodes to a non-empty name that the validator rejects, detection fails
\* with InvalidData and returns neither a Header nor None; a payload that
\* decodes to an empty name yields a Header without a name, although the
\* validator accepts no empty name.
C15_DecodeFailureIsFatal ==
  DecodeReached =>
    /\ result.kind # "none"
    /\ ~ProtoDecode(PayloadSeen).ok
         => result = Err("InvalidData", "Invalid header message")
    /\ (/\ ProtoDecode(PayloadSeen).ok
        /\ ProtoDecode(PayloadSeen).name # <<>>
        /\ ~NameValid(ProtoDecode(PayloadSeen).name))
         => result = Err("InvalidData", "Invalid name")
    /\ (ProtoDecode(PayloadSeen).ok /\ ProtoDecode(PayloadSeen).name = <<>>)
         => (/\ result.kind = "some" /\ result.header.name = NoName
             /\ ~NameValid(<<>>))
    /\ PayloadSeen \in BadPayloads
         => (result.kind = "err" /\ result.err = "InvalidData")

\* A payload whose name is "a.." was read from the transport and refused
\* as an invalid name.
C15_Witness ==
  /\ DecodeReached /\ PayloadSeen = <<18, 3, 97, 46, 46>> /\ taken # <<>>
  /\ result = Err("InvalidData", "Invalid name")

\* ------------------------------------------------------------------------
\* HTTP metrics report (linkerd/http-metrics/src/report.rs)
\* ------------------------------------------------------------------------

\* Report::retain_idle, in ticks of the clock.
RetainIdle == 5

\* The readings of clock::now() at a report.
Clocks == {2 * RetainIdle, 3 * RetainIdle}

\* The times of a target's last update.
LastUpdates == {RetainIdle - 1, 2 * RetainIdle - 1}

\* What a target's Metrics hold: a request counter and, by status and
\* class, latencies and response counters.
MetricsShapes ==
  {[total |-> 0, by_status |-> <<>>],
   [total |-> 3,
    by_status |->
      <<[status |-> 200, latency |-> 3,
         by_class |-> <<[class |-> "success", total |-> 2],
                        [class |-> "failure", total |-> 1]>>]>>]}

\* A target's entry of Registry::by_target, or none.  poisoned: the
\* target's Mutex is poisoned, so that lock() fails.
TargetEntries(t) ==
  {<<>>} \cup
  {<<[tgt |-> t, poisoned |-> p, last |-> l, m |-> m]>> :
     p \in BOOLEAN, l \in LastUpdates, m \in MetricsShapes}

\* Registries of up to three targets; poisoned: the registry's Mutex is
\* poisoned.
Registries ==
  {[poisoned |-> p, by_target |-> a \o b \o c] :
     p \in BOOLEAN, a \in TargetEntries("a"), b \in TargetEntries("b"),
     c \in TargetEntries("c")}

\* Registry::retain_since: the targets updated at `since` or later stay.
RetainSince(bt, since) == SelectSeq(bt, LAMBDA e : e.last >= since)

\* FmtMetric::fmt_metric_labeled and Metric::fmt_help: a line written.
Line(name, labels, value) == [name |-> name, labels |-> labels, value |-> value]

Help(name) == [name |-> name, labels |-> <<"help">>, value |-> 0]

\* The three passes over by_target and the metric each one writes.
PassName(p) ==
  CASE p = 1 -> "request_total"
    [] p = 2 -> "response_latency_ms"
    [] p = 3 -> "response_total"

RECURSIVE StatusLines(_, _, _)
RECURSIVE ClassLines(_, _, _, _)
RECURSIVE StatusClassLines(_, _, _)

\* Faulty variant of FmtByTarget: the metrics behind a lock that was not
\* acquired are written all the same.
FmtByTargetStale(e, name) == <<Line(name, <<e.tgt>>, e.m.total)>>

\* Registry::fmt_by_target with get_metric = |s| &s.total, one iteration
\* of its loop: what it writes for the entry e.
FmtByTarget(e, name) ==
  IF ~e.poisoned THEN <<Line(name, <<e.tgt>>, e.m.total)>> ELSE <<>>

\* The inner loop of fmt_by_status over by_status.
StatusLines(tgt, bs, name) ==
  IF bs = <<>> THEN <<>>
  ELSE <<Line(name, <<tgt, Head(bs).status>>, Head(bs).latency)>>
       \o StatusLines(tgt, Tail(bs), name)

\* Registry::fmt_by_status with get_metric = |s| &s.latency, one iteration
\* of its outer loop.
FmtByStatus(e, name) ==
  IF ~e.poisoned THEN StatusLines(e.tgt, e.m.by_status, name) ELSE <<>>

\* The innermost loop of fmt_by_class over by_class.
ClassLines(tgt, status, bc, name) ==
  IF bc = <<>> THEN <<>>
  ELSE <<Line(name, <<tgt, status, Head(bc).class>>, Head(bc).total)>>
       \o ClassLines(tgt, status, Tail(bc), name)

\* The middle loop of fmt_by_class over by_status.
StatusClassLines(tgt, bs, name) ==
  IF bs = <<>> THEN <<>>
  ELSE ClassLines(tgt, Head(bs).status, Head(bs).by_class, name)
       \o StatusClassLines(tgt, Tail(bs), name)

\* Registry::fmt_by_class with get_metric = |s| &s.total, one iteration of
\* its outer loop.
FmtByClass(e, name) ==
  IF ~e.poisoned THEN StatusClassLines(e.tgt, e.m.by_status, name) ELSE <<>>

\* What the iteration of pass p at the entry e writes while it holds, or
\* fails to get, the lock of e.
Iteration(p, e) ==
  CASE p = 1 -> FmtByTarget(e, PassName(1))
    [] p = 2 -> FmtByStatus(e, PassName(2))
    [] p = 3 -> FmtByClass(e, PassName(3))

\* The most writes a formatter accepts before it fails, when it fails.
MaxWrites == 3

\* -1: the formatter never fails; n: its write number n + 1 fails.
WriterLimits == {-1} \cup 0..MaxWrites

\* The lines are handed to a formatter that accepts `left` more writes:
\* what is written, what the formatter accepts afterwards, and whether
\* every write succeeded.  A write that fails leaves nothing of its line.
WriteAll(lines, left) ==
  IF left < 0 THEN [out |-> lines, left |-> -1, ok |-> TRUE]
  ELSE IF Len(lines) <= left
       THEN [out |-> lines, left |-> left - Len(lines), ok |-> TRUE]
       ELSE [out |-> Take(lines, left), left |-> 0, ok |-> FALSE]

\* The most steps other holders of the targets' metrics take during one
\* report.
MaxOthers == 1

ReportInit ==
  /\ reg \in Registries
  /\ reg0 = reg
  /\ rpc = "new"
  /\ rnow = 0
  /\ rout = <<>>
  /\ rret = "pending"
  /\ rpass = 0
  /\ ridx = 0
  /\ rleft \in WriterLimits
  /\ rlog = {}
  /\ renv = 0
  /\ DetectOff
  /\ CodecOff

\* fmt_metrics returns r.
FmtReturn(r) ==
  /\ rret' = r
  /\ rpc' = "done"
  /\ rpass' = 0
  /\ ridx' = 0

\* Report::fmt_metrics from its call to the first tm.lock() of
\* fmt_by_target (report.rs 46-69): the registry is locked and pruned and
\* the first help line is written.  The registry's lock is held until
\* fmt_metrics returns.
FmtMetricsEnter ==
  /\ rpc = "new"
  /\ IF reg.poisoned
     THEN /\ FmtReturn("ok")
          /\ UNCHANGED <<reg, rnow, rout, rleft>>
     ELSE \E now \in Clocks :
            \E kept \in {RetainSince(reg.by_target, now - RetainIdle)} :
              /\ rnow' = now
              /\ reg' = [reg EXCEPT !.by_target = kept]
              /\ IF kept = <<>>
                 THEN /\ FmtReturn("ok")
                      /\ UNCHANGED <<rout, rleft>>
                 ELSE \E w \in {WriteAll(<<Help(PassName(1))>>, rleft)} :
                        /\ rout' = w.out
                        /\ rleft' = w.left
                        /\ IF w.ok
                           THEN /\ rpc' = "pass" /\ rpass' = 1 /\ ridx' = 1
                                /\ UNCHANGED rret
                           ELSE FmtReturn("err")
  /\ UNCHANGED <<reg0, rlog, renv>>
  /\ UNCHANGED <<detectVars, codecVars>>

\* One iteration of the loop of fmt_by_target, fmt_by_status or
\* fmt_by_class: tm.lock(), the lines of the target written under the
\* lock, the lock released; after the last target of a pass, the help line
\* of the next metric, up to the next tm.lock() or the return.
FmtMetricsLock ==
  /\ rpc = "pass"
  /\ \E e \in {reg.by_target[ridx]} :
       /\ rlog' = rlog \cup {<<rpass, e.tgt, ~e.poisoned>>}
       /\ \E w \in {WriteAll(Iteration(rpass, e)
                             \o (IF ridx = Len(reg.by_target) /\ rpass < 3
                                 THEN <<Help(PassName(rpass + 1))>> ELSE <<>>),
                             rleft)} :
            /\ rout' = rout \o w.out
            /\ rleft' = w.left
            /\ IF ~w.ok THEN FmtReturn("err")
               ELSE IF ridx < Len(reg.by_target)
                    THEN /\ ridx' = ridx + 1
                         /\ UNCHANGED <<rpc, rret, rpass>>
               ELSE IF rpass < 3
                    THEN /\ rpass' = rpass + 1 /\ ridx' = 1
                         /\ UNCHANGED <<rpc, rret>>
               ELSE FmtReturn("ok")
  /\ UNCHANGED <<reg, rnow, reg0, renv>>
  /\ UNCHANGED <<detectVars, codecVars>>

\* What a target's Metrics hold after one more request that ended in the
\* first class of the first status, when there is one.
Recorded(m) ==
  [total |-> m.total + 1,
   by_status |->
     IF m.by_status = <<>> \/ m.by_status[1].by_class = <<>> THEN m.by_status
     ELSE [m.by_status EXCEPT ![1].by_class[1].total = @ + 1]]

\* Another holder of a target's Arc<Mutex<Metrics>> locks it between two
\* tm.lock() of the report and records a request.
RecordRequest ==
  /\ rpc = "pass"
  /\ renv < MaxOthers
  /\ \E i \in 1..Len(reg.by_target) :
       /\ ~reg.by_target[i].poisoned
       /\ reg' = [reg EXCEPT !.by_target[i].m = Recorded(@),
                             !.by_target[i].last = rnow]
  /\ renv' = renv + 1
  /\ UNCHANGED <<rpc, rnow, rout, rret, reg0, rpass, ridx, rleft, rlog>>
  /\ UNCHANGED <<detectVars, codecVars>>

\* Another holder of a target's Arc<Mutex<Metrics>> panics while it holds
\* the lock, between two tm.lock() of the report: the Mutex is poisoned.
PoisonTarget ==
  /\ rpc = "pass"
  /\ renv < MaxOthers
  /\ \E i \in 1..Len(reg.by_target) :
       /\ ~reg.by_target[i].poisoned
       /\ reg' = [reg EXCEPT !.by_target[i].poisoned = TRUE]
  /\ renv' = renv + 1
  /\ UNCHANGED <<rpc, rnow, rout, rret, reg0, rpass, ridx, rleft, rlog>>
  /\ UNCHANGED <<detectVars, codecVars>>

ReportNext == FmtMetricsEnter \/ FmtMetricsLock \/ RecordRequest \/ PoisonTarget

SpecReport == ReportInit /\ [][ReportNext]_vars

\* The entries of the registry after the report.
Live == {reg.by_target[i] : i \in 1..Len(reg.by_target)}

\* A line of the metric of pass p for the target t was written.
Wrote(p, t) ==
  \E i \in 1..Len(rout) :
    rout[i].name = PassName(p) /\ rout[i].labels[1] = t

\* C16: when the registry's lock cannot be acquired, fmt_metrics returns
\* Ok with nothing written and the registry as it was, nothing pruned.
\* When the registry's lock is acquired, a target's lock that cannot be
\* acquired never makes fmt_metrics fail (only a write the formatter
\* refuses does), and when fmt_metrics returns Ok every target of the
\* registry was visited in each of the three passes, a visit whose lock
\* failed wrote nothing for that target, and a visit of the first pass
\* whose lock succeeded wrote the target's request counter, whatever the
\* locks of the other targets did.
C16_LockFailureIsNotFatal ==
  rpc = "done" =>
    /\ rret \in {"ok", "err"}
    /\ reg0.poisoned => (rret = "ok" /\ rout = <<>> /\ reg = reg0)
    /\ rret = "err" => (rleft = 0 /\ ~reg0.poisoned)
    /\ (~reg0.poisoned /\ rret = "ok") =>
         /\ \A e \in Live : \A p \in 1..3 :
              \E ok \in BOOLEAN : <<p, e.tgt, ok>> \in rlog
         /\ \A v \in rlog :
              /\ ~v[3] => ~Wrote(v[1], v[2])
              /\ (v[3] /\ v[1] = 1)
                   => \E i \in 1..Len(rout) :
                        /\ rout[i].name = PassName(1)
                        /\ rout[i].labels = <<v[2]>>

\* The lock of the first of three targets failed in every pass; the two
\* targets after it were rendered in the first pass.
C16_Witness ==
  /\ rpc = "done" /\ rret = "ok" /\ ~reg0.poisoned /\ Len(reg.by_target) = 3
  /\ \A p \in 1..3 : <<p, reg.by_target[1].tgt, FALSE>> \in rlog
  /\ ~Wrote(1, reg.by_target[1].tgt)
  /\ Wrote(1, reg.by_target[2].tgt) /\ Wrote(1, reg.by_target[3].tgt)

\* C17 as stated: a read is awaited only while the buffer holds fewer than
\* 25 bytes before the preface decision, or fewer than msg_len bytes after
\* the length was read.
C17_Original ==
  /\ pc = "preface" => Len(buf.data) < 25
  /\ pc = "payload" => Len(buf.data) < U32Val(msg_len)

\* C17, amended: a read is awaited only while the buffer holds fewer than
\* PREFACE_LEN (28) bytes before the preface decision, or fewer than
\* msg_len bytes after the length was read; the transport only loses the
\* bytes such a read delivers, and none once detection has returned, so
\* what follows the frame and was not delivered by the read that completed
\* it is still on the transport, in order.
C17_ReadsOnlyWhenNeeded ==
  /\ [](pc = "preface" => Len(buf.data) < PREFACE_LEN)
  /\ [](pc = "payload" => Len(buf.data) < U32Val(msg_len))
  /\ [][io' # io =>
         /\ Suspended
         /\ io' = Drop(io, Len(taken') - Len(taken))
         /\ taken' = taken \o Take(io, Len(taken') - Len(taken))]_vars
  /\ [][Returned => io' = io]_vars
  /\ [](Returned => Seen \o io = entry.data \o Drop(scn.wire, Len(entry.data)))

\* The header was returned after several reads, the last of which ended
\* with the frame: both trailing bytes are still on the transport.
C17_Witness ==
  /\ Returned /\ result.kind = "some" /\ scn.kind = "frame"
  /\ Len(taken) = Len(scn.wire) - MaxTrail /\ entry.data = <<>>
  /\ buf.data = <<>> /\ io = Take(Digits, MaxTrail)

\* read_prefaced run to its end with the fewest, largest reads, as
\* RunWhole: its result and the bytes it leaves, those of the buffer
\* followed by those the transport still holds.
RECURSIVE RunEnd(_, _, _)
RunEnd(l, rest, end) ==
  IF l.pc = "done" \/ (rest = <<>> /\ end = "open")
  THEN [result |-> l.result, left |-> l.buf.data \o rest,
        msg_len |-> l.msg_len, chk |-> l.chk]
  ELSE IF rest = <<>>
       THEN IF end = "eof"
            THEN RunEnd(AfterRead(l.pc, l.buf, 0, l.msg_len, l.chk, l.rsv), rest, end)
            ELSE RunEnd(AfterError(l.buf, l.msg_len, l.chk, l.rsv), rest, end)
  ELSE RunEnd(AfterRead(l.pc,
                        PutBytes(l.buf, Take(rest, Min(Spare(l.buf), Len(rest)))),
                        Min(Spare(l.buf), Len(rest)),
                        l.msg_len, l.chk, l.rsv),
              Drop(rest, Min(Spare(l.buf), Len(rest))), end)

\* The run on a buffer created empty whose transport carries the content
\* of this call's buffer on entry followed by this call's stream.
FromEmpty ==
  RunEnd(PrefaceLoop(NewBuf(<<>>, 0)),
         entry.data \o Drop(scn.wire, Len(entry.data)), ioEnd)

\* Detection returned what the run from an empty buffer returns, and left
\* the same bytes.
AsFromEmpty ==
  /\ Outcome(result) = Outcome(FromEmpty.result)
  /\ buf.data \o io = FromEmpty.left

\* The bound check of this call and the one of the run from an empty
\* buffer, whose capacities differ, agree on the declared length.
SameBoundVerdict ==
  chk >= 0 =>
    (U32Exceeds(msg_len, chk + PREFACE_LEN)
       <=> U32Exceeds(FromEmpty.msg_len, FromEmpty.chk + PREFACE_LEN))

\* The buffer on entry holds a complete frame of a Header.
FrameBuffered ==
  scn.kind = "frame" /\ Len(entry.data) >= Len(scn.wire) - Len(scn.trail)

\* C18 as stated: detection on a buffer that holds B on entry over the
\* stream S returns the outcome and leaves the bytes of detection on an
\* empty buffer over B followed by S.
C18_Original == Returned => AsFromEmpty

\* C18, amended: the same, provided the bound check, which depends on the
\* capacity of the buffer, gives the same verdict on the declared length
\* in both runs; and when the buffer on entry holds a complete frame,
\* detection returns its Header without any read of the transport.
C18_PrefilledAsStream ==
  /\ (Returned /\ SameBoundVerdict) => AsFromEmpty
  /\ (FrameBuffered /\ pc # "idle") =>
       /\ Returned /\ taken = <<>>
       /\ YieldsHeader(scn.h, scn.trail)

\* The first five bytes of a frame were in the buffer on entry, the rest
\* was read, and the header was returned.
C18_Witness ==
  /\ Returned /\ Len(entry.data) = 5 /\ scn.kind = "frame"
  /\ result.kind = "some" /\ result.header.name = SomeName(FooName)
  /\ taken # <<>>

\* ------------------------------------------------------------------------
\* Detection called again after "not present"
\* ------------------------------------------------------------------------

\* The caller, told that no header is present, calls detect again with the
\* same buffer and the same transport.
Retry ==
  /\ Returned
  /\ result = OkNone
  /\ calls < MaxCalls
  /\ calls' = calls + 1
  /\ pc' = "idle"
  /\ result' = Pending
  /\ msg_len' = <<0, 0>>
  /\ chk' = -1
  /\ rsv' = 0
  /\ last' = "none"
  /\ UNCHANGED <<buf, io, ioEnd, entry, taken, scn, det, alloc, conn>>
  /\ UNCHANGED <<codecVars, reportVars>>

RetryNext == Detect \/ ReadData \/ ReadEof \/ ReadError \/ Cancel \/ Retry

SpecRetry == Init /\ [][RetryNext]_vars

\* A call that follows a call which returned None has returned.
ReturnedAgain == Returned /\ calls > 1

\* C19 as stated: detection called again after None returns None again
\* and leaves the buffered bytes in place; with at least 25 bytes buffered
\* the second call makes no read.
C19_Original ==
  ReturnedAgain =>
    /\ result = OkNone
    /\ buf.data = Seen
    /\ Len(buf.data) >= 25 => last = "none"

\* C19, amended: detection called again after None returns None again,
\* never a Header, and leaves the buffered bytes in place; with at least
\* PREFACE_LEN (28) bytes buffered the second call makes no read, with
\* fewer it reads the end of the stream again.
C19_NotPresentIsRepeatable ==
  /\ ReturnedAgain =>
       /\ result = OkNone
       /\ buf.data = Seen
       /\ Len(buf.data) >= PREFACE_LEN => last = "none"
       /\ Len(buf.data) < PREFACE_LEN => last = "eof"
  /\ calls > 1 => result.kind \in {"pending", "none"}

\* The HTTP request was found to carry no header a second time, without
\* a read.
C19_Witness ==
  /\ ReturnedAgain /\ result = OkNone /\ buf.data = HttpMsg
  /\ taken # <<>> /\ last = "none"

\* The peer sends fewer than PREFACE_LEN bytes and keeps the connection
\* open without sending more.
SilentPeer == ioEnd = "open" /\ Len(scn.wire) < PREFACE_LEN

\* C20: detection returns with fewer than PREFACE_LEN bytes buffered (28;
\* the 25 of the claim are fewer) only when the transport signalled its end
\* or an error, also when the bytes differ from the preface already; with
\* a peer that sends fewer bytes and stays silent it never returns, and
\* ends up awaiting the transport for good with every byte in the buffer.
C20_NoDecisionBeforePrefaceLen ==
  /\ []((Returned /\ Len(Seen) < PREFACE_LEN) => last \in {"eof", "err"})
  /\ [](SilentPeer => ~Returned)
  /\ SilentPeer ~> [](pc = "preface" /\ io = <<>> /\ buf.data = scn.wire)

\* Detection awaits a silent peer with 26 bytes of an HTTP request in the
\* buffer.
C20_Witness ==
  /\ SilentPeer /\ pc = "preface" /\ io = <<>>
  /\ buf.data = Take(HttpMsg, 26) /\ taken # <<>>

====
